---------------------------- MODULE Spec2Model ----------------------------
(***************************************************************************)
(* A model of the clap command-line toolkit:                               *)
(*   - option.Option            (src/clap/option.py)                       *)
(*   - modes.Parser             (src/clap/modes.py)                        *)
(*   - helper.makelines, helper.HelpRunner (src/clap/helper.py)            *)
(*                                                                         *)
(* Python strings are TLA+ strings where only equality, length and         *)
(* concatenation are needed (option names, tokens), and sequences of       *)
(* one-character strings where the code looks at characters (makelines).   *)
(* Python values that may be None are records: PyNone, PyList(items).      *)
(***************************************************************************)
EXTENDS Integers, Sequences, FiniteSets, TLC

VARIABLES
    \* ---- option.Option under test
    optObj,      \* Option.meta of the most recently constructed Option, or PyNone
    optArgs,     \* the constructor arguments optObj was built from
    optRet,      \* outcome of the last Option operation
    \* ---- modes.Parser
    cmdline,     \* the invocation's token list, handed to feed()
    argv,        \* Parser._argv
    modes,       \* Parser._modes: mode name -> sub-parser object id
    mode,        \* Parser.mode (the attribute feed() and define() assign)
    default,     \* Parser.default
    parser,      \* Parser.parser: PyNone or a sub-parser object id
    subOptions,  \* per sub-parser object: Base._options (a list of Option.meta)
    subArgv,     \* per sub-parser object: the token list last fed to it
    ret,         \* outcome of the last Parser operation
    \* ---- helper.makelines: its arguments, its locals and where it stands
    ml_s,        \* s, a sequence of characters
    ml_maxlen,   \* maxlen
    ml_words,    \* words
    ml_line,     \* line
    ml_i,        \* i
    ml_lines,    \* lines
    ml_pc,       \* "while" in the loop, "done" once returned
    \* ---- helper.HelpRunner and the parsed UI it is given
    hr_chain,      \* the parsed UI: its nested levels, root first, each a mode
                   \* name and the options present at it
    hr_operands,   \* the operands of the innermost level
    hr_ui,         \* HelpRunner._ui: the level the cursor stands at
    hr_options,    \* HelpRunner._options
    hr_commands,   \* HelpRunner._commands
    hr_ignorecmds, \* HelpRunner._ignorecmds
    hr_displayed,  \* HelpRunner._displayed
    hr_printed,    \* the blocks the last run() printed, in order
    hr_ret,        \* outcome of the last HelpRunner operation
    \* ---- helper.Helper
    hp_mode,           \* Helper._mode
    hp_maxlen,         \* Helper._maxlen
    hp_opt_desc_start, \* Helper._opt_desc_start
    hp_lines,          \* Helper._lines
    hp_ret             \* outcome of the last Helper operation

optVars  == <<optObj, optArgs, optRet>>
modeVars == <<cmdline, argv, modes, mode, default, parser, subOptions, subArgv, ret>>
lineVars == <<ml_s, ml_maxlen, ml_words, ml_line, ml_i, ml_lines, ml_pc>>
helpVars == <<hr_chain, hr_operands, hr_ui, hr_options, hr_commands, hr_ignorecmds,
              hr_displayed, hr_printed, hr_ret>>
builderVars == <<hp_mode, hp_maxlen, hp_opt_desc_start, hp_lines, hp_ret>>
vars     == <<optVars, modeVars, lineVars, helpVars, builderVars>>

(***************************************************************************)
(* Python values                                                           *)
(***************************************************************************)
PyNone == [py |-> "None"]
PyList(items) == [py |-> "list", items |-> items]
PyObj(id) == [py |-> "object", id |-> id]

\* len() of a Python value that has a length
PyLen(v) == Len(v.items)

\* truth value of a Python value: None and the empty list are false
PyTruth(v) == v /= PyNone /\ (v.py = "list" => Len(v.items) > 0)

(***************************************************************************)
(* option.Option                                                           *)
(***************************************************************************)
\* Inputs of the Option operations
ShortNames == {"", "v"}
LongNames == {"", "x", "xy", "verbose"}
ArgumentValues == {PyNone, PyList(<<"str">>)}
MatchTokens == {"", "v", "-v", "--v", "x", "xy", "--xy", "verbose", "-verbose", "--verbose"}

\* Option.__init__: the two checks that raise TypeError
OptionInitRaises_LongAtMostTwo(short, long) ==
    \/ ~(short /= "" \/ long /= "")
    \/ (Len(long) <= 2 /\ long /= "")

OptionInitRaises(short, long) ==
    \/ ~(short /= "" \/ long /= "")
    \/ (Len(long) < 2 /\ long /= "")

\* Option.__init__: the meta dictionary it stores. The fields required, requires,
\* needs, not_with and conflicts are stored as given and read by nothing modelled here.
OptionMeta(short, long, argument) ==
    [short    |-> IF short /= "" THEN "-" \o short ELSE short,
     long     |-> IF long /= "" THEN "--" \o long ELSE long,
     argument |-> argument]

\* Option.match
match(meta, s) == s = meta.short \/ s = meta.long

\* Option.type
OptionType(meta) == meta.argument

OptionNew ==
    \E short \in ShortNames, long \in LongNames, argument \in ArgumentValues :
        IF OptionInitRaises(short, long)
        THEN /\ optRet' = [op |-> "Option", short |-> short, long |-> long,
                           raised |-> "TypeError"]
             /\ UNCHANGED <<optObj, optArgs>>
        ELSE /\ optObj' = OptionMeta(short, long, argument)
             /\ optArgs' = [short |-> short, long |-> long]
             /\ optRet' = [op |-> "Option", short |-> short, long |-> long,
                           raised |-> ""]

OptionMatch ==
    /\ optObj /= PyNone
    /\ \E s \in MatchTokens :
        optRet' = [op |-> "match", token |-> s, value |-> match(optObj, s)]
    /\ UNCHANGED <<optObj, optArgs>>

OptionIdle ==
    /\ optObj = PyNone
    /\ optArgs = [short |-> "", long |-> ""]
    /\ optRet = [op |-> "none"]


(***************************************************************************)
(* shared.lookslikeopt and base.Base: imported by modes.py, their code is  *)
(* not among the sources; modelled from the specification.                 *)
(***************************************************************************)
\* Everything that follows the first hyphen of some token of the model
TokenTails == {"", "-", "a", "-bb", "h", "-help", "-usage", "-examples", "-verbose", "?"}

\* shared.lookslikeopt: the token is hyphen-prefixed
lookslikeopt(s) == \E t \in TokenTails : s = "-" \o t

\* Base.type: the declared argument types of the first option of the list that
\* matches the name, None when no option matches
RECURSIVE BaseType(_, _)
BaseType(options, s) ==
    IF options = <<>> THEN PyNone
    ELSE IF match(Head(options), s) THEN OptionType(Head(options))
    ELSE BaseType(Tail(options), s)

\* Base.__contains__: some option of the list matches the name
BaseContains(options, s) == \E k \in 1..Len(options) : match(options[k], s)

(***************************************************************************)
(* modes.Parser                                                            *)
(***************************************************************************)
MaxArgv == 3

Tokens == {"-a", "--bb", "--", "m1"}
ModeNames == {"", "m1"}
\* dict order of Parser._modes: '' is inserted by __init__, before any other name
ModeOrder == <<"", "m1">>
\* sub-parser objects: 0 is the Base() made by Parser.__init__, 1 is built by the caller
ParserIds == {0, 1}
NoAttr == "<no attribute>"

OptA == OptionMeta("a", "", PyNone)
OptB == OptionMeta("", "bb", PyList(<<"str">>))
\* the option lists a caller-built sub-parser may come with
OptLists == {<<>>, <<OptB>>, <<OptA, OptB>>}

TokenLists == UNION {[1..n -> Tokens] : n \in 0..MaxArgv}

\* Parser.type, the loop over self._modes when no sub-parser is resolved: the
\* answer of the first registered sub-parser, in dict order, that has options and
\* does not answer None
RECURSIVE typeProbe(_, _)
typeProbe(s, k) ==
    IF k > Len(ModeOrder) THEN PyNone
    ELSE IF /\ ModeOrder[k] \in DOMAIN modes
            /\ subOptions[modes[ModeOrder[k]]] /= <<>>
            /\ BaseType(subOptions[modes[ModeOrder[k]]], s) /= PyNone
         THEN BaseType(subOptions[modes[ModeOrder[k]]], s)
         ELSE typeProbe(s, k + 1)

\* Parser.type
type(s) ==
    IF parser /= PyNone THEN BaseType(subOptions[parser.id], s)
    ELSE typeProbe(s, 1)

\* Parser._modeindex: the while loop, from Python index i (argv[i+1] is the item)
RECURSIVE modeindexLoop(_, _)
modeindexLoop(index, i) ==
    IF ~(i < Len(argv)) THEN index
    ELSE LET item == argv[i + 1]
             args == type(item)
             n    == IF args /= PyNone THEN PyLen(args) ELSE 0
             i2   == IF lookslikeopt(item) THEN i + n ELSE i
         IN  IF item = "--" THEN index
             ELSE IF ~lookslikeopt(item)
                  THEN LET index2 == IF i2 = 0 \/ ~PyTruth(type(argv[i2]))
                                     THEN i2 ELSE index
                       IN  IF index2 > -1 THEN index2
                           ELSE modeindexLoop(index2, i2 + 1)
                  ELSE modeindexLoop(index, i2 + 1)

modeindex == modeindexLoop(-1, 0)

\* Parser.define: the token list handed to the resolved sub-parser,
\* self._argv[:index] + self._argv[index+n:]
defineInput_DropsFromIndex(index, n) ==
    SubSeq(argv, 1, index)

defineInput(index, n) ==
    SubSeq(argv, 1, index) \o SubSeq(argv, index + n + 1, Len(argv))

\* Parser.define: the mode name and the slice bounds the scan result gives
defineMode(scan) == IF scan > -1 THEN argv[scan + 1] ELSE default
defineIndex(scan) == IF scan > -1 THEN scan ELSE 0
defineN(scan) == IF scan > -1 THEN 1 ELSE 0

define_AssignsBeforeCheck ==
    LET scan == modeindex
        m    == defineMode(scan)
    IN  IF m \notin DOMAIN modes
        THEN /\ mode' = m
             /\ ret' = [op |-> "define", index |-> scan, raised |-> "UnrecognizedModeError"]
             /\ UNCHANGED <<cmdline, argv, modes, default, parser, subOptions, subArgv>>
        ELSE /\ parser' = PyObj(modes[m])
             /\ subArgv' = [subArgv EXCEPT ![modes[m]] =
                               PyList(defineInput(defineIndex(scan), defineN(scan)))]
             /\ mode' = m
             /\ ret' = [op |-> "define", index |-> scan, raised |-> "", value |-> m]
             /\ UNCHANGED <<cmdline, argv, modes, default, subOptions>>

define ==
    LET scan == modeindex
        m    == defineMode(scan)
    IN  IF m \notin DOMAIN modes
        THEN /\ ret' = [op |-> "define", index |-> scan, raised |-> "UnrecognizedModeError"]
             /\ UNCHANGED <<cmdline, argv, modes, mode, default, parser, subOptions, subArgv>>
        ELSE /\ parser' = PyObj(modes[m])
             /\ subArgv' = [subArgv EXCEPT ![modes[m]] =
                               PyList(defineInput(defineIndex(scan), defineN(scan)))]
             /\ mode' = m
             /\ ret' = [op |-> "define", index |-> scan, raised |-> "", value |-> m]
             /\ UNCHANGED <<cmdline, argv, modes, default, subOptions>>

\* Parser.feed
feed ==
    /\ argv' = cmdline
    /\ parser' = PyNone
    /\ mode' = ""
    /\ ret' = [op |-> "feed"]
    /\ UNCHANGED <<cmdline, modes, default, subOptions, subArgv>>

\* Parser.addMode
addMode ==
    \E name \in ModeNames, id \in ParserIds :
        /\ modes' = [k \in DOMAIN modes \cup {name} |-> IF k = name THEN id ELSE modes[k]]
        /\ ret' = [op |-> "addMode"]
        /\ UNCHANGED <<cmdline, argv, mode, default, parser, subOptions, subArgv>>

\* Parser.__contains__: `option in self.parser`; None is not a container
contains ==
    \E option \in {"-a", "--bb"} :
        /\ ret' = IF parser = PyNone
                  THEN [op |-> "contains", option |-> option, raised |-> "TypeError"]
                  ELSE [op |-> "contains", option |-> option, raised |-> "",
                        value |-> BaseContains(subOptions[parser.id], option)]
        /\ UNCHANGED <<cmdline, argv, modes, mode, default, parser, subOptions, subArgv>>

\* Parser._append: a sub-parser registered under several names is appended to once
\* per name
RECURSIVE Repeat(_, _)
Repeat(x, k) == IF k = 0 THEN <<>> ELSE <<x>> \o Repeat(x, k - 1)

append(option, local) ==
    IF local
    THEN [subOptions EXCEPT ![modes[""]] = Append(@, option)]
    ELSE [id \in DOMAIN subOptions |->
             subOptions[id] \o
             Repeat(option, Cardinality({name \in DOMAIN modes : modes[name] = id}))]

\* the keyword parameters Option.__init__ declares
OptionParams ==
    {"short", "long", "argument", "requires", "needs", "required", "not_with", "conflicts"}

\* the keywords Parser.addOption passes to option.Option
addOptionKeywords ==
    {"short", "long", "help", "arguments", "requires", "wants", "required", "not_with",
     "conflicts"}

\* Parser.addOption: a keyword Option.__init__ does not declare raises TypeError
\* before anything is built; `arguments` is no parameter of Option.__init__, so a
\* call that got through would leave `argument` at its default, None
addOption ==
    \E short \in {"c"}, long \in {"cc"}, local \in BOOLEAN :
        IF ~(addOptionKeywords \subseteq OptionParams) \/ OptionInitRaises(short, long)
        THEN /\ ret' = [op |-> "addOption", short |-> short, long |-> long,
                        local |-> local, raised |-> "TypeError"]
             /\ UNCHANGED <<cmdline, argv, modes, mode, default, parser, subOptions, subArgv>>
        ELSE /\ subOptions' = append(OptionMeta(short, long, PyNone), local)
             /\ ret' = [op |-> "addOption", short |-> short, long |-> long,
                        local |-> local, raised |-> ""]
             /\ UNCHANGED <<cmdline, argv, modes, mode, default, parser, subArgv>>

(***************************************************************************)
(* helper.makelines                                                        *)
(***************************************************************************)
MaxStrLen == 5
MaxWidth == 4
MaxLines == 6

Chars == {"a", " "}
Strings == UNION {[1..n -> Chars] : n \in 0..MaxStrLen}
Widths == (-1)..MaxWidth

\* str.split(' '): the pieces between single spaces, empty pieces included
RECURSIVE split(_)
split(str) ==
    IF \A p \in 1..Len(str) : str[p] /= " " THEN <<str>>
    ELSE LET p == CHOOSE q \in 1..Len(str) :
                      str[q] = " " /\ \A r \in 1..(q - 1) : str[r] /= " "
         IN  <<SubSeq(str, 1, p - 1)>> \o split(SubSeq(str, p + 1, Len(str)))

\* makelines: the test that packs the word into the current line
fits_UpToMaxlen(line, word, maxlen) == Len(line \o word) <= maxlen

fits(line, word, maxlen) == Len(line \o word) <= maxlen - 1

\* makelines: one turn of the while loop that packs the word
makelinesPack ==
    /\ ml_pc = "while"
    /\ ml_i < Len(ml_words)
    /\ fits(ml_line, ml_words[ml_i + 1], ml_maxlen)
    /\ ml_line' = ml_line \o ml_words[ml_i + 1] \o <<" ">>
    /\ ml_i' = ml_i + 1
    /\ UNCHANGED <<ml_s, ml_maxlen, ml_words, ml_lines, ml_pc>>

\* makelines: one turn of the while loop that starts a new line; the list of lines
\* is let grow to MaxLines
makelinesBreak ==
    /\ ml_pc = "while"
    /\ ml_i < Len(ml_words)
    /\ ~fits(ml_line, ml_words[ml_i + 1], ml_maxlen)
    /\ Len(ml_lines) < MaxLines
    /\ ml_lines' = Append(ml_lines, ml_line)
    /\ ml_line' = <<>>
    /\ UNCHANGED <<ml_s, ml_maxlen, ml_words, ml_i, ml_pc>>

\* makelines: the loop is left, the last line is kept when not empty
makelinesReturn ==
    /\ ml_pc = "while"
    /\ ~(ml_i < Len(ml_words))
    /\ ml_lines' = IF ml_line /= <<>> THEN Append(ml_lines, ml_line) ELSE ml_lines
    /\ ml_pc' = "done"
    /\ UNCHANGED <<ml_s, ml_maxlen, ml_words, ml_line, ml_i>>

\* makelines entered with any string and any width
LinesInit ==
    /\ ml_s \in Strings
    /\ ml_maxlen \in Widths
    /\ ml_words = split(ml_s)
    /\ ml_line = <<>>
    /\ ml_i = 0
    /\ ml_lines = <<>>
    /\ ml_pc = "while"

LinesIdle ==
    /\ ml_s = <<>>
    /\ ml_maxlen = 0
    /\ ml_words = <<>>
    /\ ml_line = <<>>
    /\ ml_i = 0
    /\ ml_lines = <<>>
    /\ ml_pc = "idle"

LinesNext ==
    \/ makelinesPack /\ UNCHANGED <<optVars, modeVars, helpVars, builderVars>>
    \/ makelinesBreak /\ UNCHANGED <<optVars, modeVars, helpVars, builderVars>>
    \/ makelinesReturn /\ UNCHANGED <<optVars, modeVars, helpVars, builderVars>>

(***************************************************************************)
(* The parsed-UI cursor and the mode tree HelpRunner reads: their code is  *)
(* not among the sources; modelled from the specification and from the     *)
(* calls helper.py makes. A cursor is a level of hr_chain.                 *)
(***************************************************************************)
MaxFlags == 2
MaxOperands == 1

Flags == {"-h", "--help", "--usage", "--examples", "--verbose", "-?"}
CommandNames == {"help", "foo"}
OperandTokens == {"foo", "zzz", "-h"}
\* the options present at the invoked command: any MaxFlags of the flags
LevelOptionSets == {S \in SUBSET Flags : Cardinality(S) <= MaxFlags}
\* the options present at the root and at a nested sub-command
OuterOptionSets == {{}, {"-h"}, {"--usage"}}
OperandLists == UNION {[1..n -> OperandTokens] : n \in 0..MaxOperands}

Levels(names, optionSets) == {[name |-> n, options |-> S] : n \in names, S \in optionSets}

\* the parsed UIs: the root alone, a command under it, a sub-command under that
UiChains ==
    LET roots == Levels({""}, OuterOptionSets)
        cmds  == Levels(CommandNames, LevelOptionSets)
        subs  == Levels(CommandNames, OuterOptionSets)
    IN  {<<r>> : r \in roots}
        \cup {<<r, c>> : r \in roots, c \in cmds}
        \cup {<<r, c, d>> : r \in roots, c \in cmds, d \in subs}

uiStr(c) == hr_chain[c].name
uiDown(c) == IF c < Len(hr_chain) THEN c + 1 ELSE c
uiUp(c) == IF c > 1 THEN c - 1 ELSE c
uiTop == 1
uiIslast(c) == c = Len(hr_chain)
uiContains(c, o) == o \in hr_chain[c].options
uiOperands(c) == IF uiIslast(c) THEN hr_operands ELSE <<>>
\* cursor._mode: the mode a level stands for, named by the path to it from the root
uiMode(c) == [k \in 1..(c - 1) |-> hr_chain[k + 1].name]

\* Mode.hasmode, Mode.getmode, Mode.accepts: every mode has the sub-modes
\* CommandNames and accepts the flags
hasmode(m, item) == item \in CommandNames
getmode(m, item) == Append(m, item)
accepts(m, item) == item \in Flags

(***************************************************************************)
(* helper.HelpRunner                                                       *)
(***************************************************************************)
\* what print() is given: a block of a Helper, or a one-line notice
Usage(m) == [kind |-> "usage", mode |-> m]
Examples(m) == [kind |-> "examples", mode |-> m]
Full(m, deep) == [kind |-> "full", mode |-> m, deep |-> deep]
Notice(kind) == [kind |-> kind]

\* HelpRunner._ignore: the cursor after the loop over self._ignorecmds, from entry k
RECURSIVE ignore(_, _)
ignore(c, k) ==
    IF k > Len(hr_ignorecmds) THEN c
    ELSE IF uiStr(c) = hr_ignorecmds[k] THEN ignore(uiDown(c), k + 1)
    ELSE c

\* HelpRunner._byoptions: the while loop, <<cui, present>> when it is left
RECURSIVE byoptionsLoop(_, _)
byoptionsLoop(cui, present) ==
    LET found == present \/ \E k \in 1..Len(hr_options) : uiContains(cui, hr_options[k])
    IN  IF uiIslast(cui) THEN <<cui, found>>
        ELSE byoptionsLoop(uiDown(cui), found)

\* HelpRunner._byoptions: what it prints with the cursor at c
byoptions(c) ==
    LET left == IF uiStr(uiDown(c)) /= "help" THEN byoptionsLoop(c, FALSE)
                ELSE <<c, FALSE>>
    IN  IF left[2]
        THEN <<Full(uiMode(left[1]), uiContains(left[1], "--verbose"))>>
        ELSE <<>>

\* HelpRunner._byhelpcommand: the loop over the operands, from item k in mode m
RECURSIVE byhelpcommandLoop(_, _, _, _)
byhelpcommandLoop(items, k, m, deep) ==
    IF k > Len(items) THEN <<Full(m, deep)>>
    ELSE IF lookslikeopt(items[k])
         THEN <<Notice(IF accepts(m, items[k]) THEN "option" ELSE "unrecognised option")>>
    ELSE IF ~hasmode(m, items[k]) THEN <<Notice("unrecognised mode")>>
    ELSE byhelpcommandLoop(items, k + 1, getmode(m, items[k]), deep)

\* HelpRunner._byhelpcommand: what it prints with the cursor at c
byhelpcommand(c) ==
    LET ui    == IF uiStr(c) /= "" THEN c ELSE uiDown(c)
        items == uiOperands(ui)
        deep  == uiContains(ui, "--verbose") \/ uiContains(ui, "--help")
    IN  IF uiStr(ui) /= "help" THEN <<>>
        ELSE IF items = <<>> THEN <<Full(uiMode(uiUp(ui)), deep)>>
        ELSE byhelpcommandLoop(items, 1, uiMode(uiTop), deep)

\* HelpRunner.run: what it prints with the cursor at c after _ignore
runPrints_ByoptionsUnguarded(c) ==
    LET usage    == IF uiContains(c, "--usage") THEN <<Usage(uiMode(uiTop))>> ELSE <<>>
        examples == IF uiContains(c, "--examples") THEN <<Examples(uiMode(uiTop))>> ELSE <<>>
        d1       == hr_displayed \/ usage /= <<>> \/ examples /= <<>>
        opts     == byoptions(c)
        d2       == d1 \/ opts /= <<>>
        cmd      == IF ~d2 THEN byhelpcommand(c) ELSE <<>>
    IN  usage \o examples \o opts \o cmd

runPrints(c) ==
    LET usage    == IF uiContains(c, "--usage") THEN <<Usage(uiMode(uiTop))>> ELSE <<>>
        examples == IF uiContains(c, "--examples") THEN <<Examples(uiMode(uiTop))>> ELSE <<>>
        d1       == hr_displayed \/ usage /= <<>> \/ examples /= <<>>
        opts     == IF ~d1 THEN byoptions(c) ELSE <<>>
        d2       == d1 \/ opts /= <<>>
        cmd      == IF ~d2 THEN byhelpcommand(c) ELSE <<>>
    IN  usage \o examples \o opts \o cmd

\* HelpRunner.run: every block and notice it prints sets _displayed
run ==
    LET c == ignore(hr_ui, 1)
    IN  /\ hr_ui' = c
        /\ hr_printed' = runPrints(c)
        /\ hr_displayed' = (hr_displayed \/ runPrints(c) /= <<>>)
        /\ hr_ret' = [op |-> "run", before |-> hr_displayed]
        /\ UNCHANGED <<hr_chain, hr_operands, hr_options, hr_commands, hr_ignorecmds>>

\* HelpRunner.adjust: an argument left None keeps the current list
adjust ==
    \E options \in {PyNone, PyList(<<"-?">>)},
       commands \in {PyNone, PyList(<<"foo">>)},
       ignorecmds \in {PyNone, PyList(<<>>)} :
        /\ hr_options' = IF options /= PyNone THEN options.items ELSE hr_options
        /\ hr_commands' = IF commands /= PyNone THEN commands.items ELSE hr_commands
        /\ hr_ignorecmds' = IF ignorecmds /= PyNone THEN ignorecmds.items ELSE hr_ignorecmds
        /\ hr_ret' = [op |-> "adjust"]
        /\ UNCHANGED <<hr_chain, hr_operands, hr_ui, hr_displayed, hr_printed>>

\* HelpRunner.__init__, given any parsed UI
HelpInit ==
    /\ hr_chain \in UiChains
    /\ hr_operands \in OperandLists
    /\ hr_ui = 1
    /\ hr_options = <<"-h", "--help">>
    /\ hr_commands = <<"help">>
    /\ hr_ignorecmds = <<"">>
    /\ hr_displayed = FALSE
    /\ hr_printed = <<>>
    /\ hr_ret = [op |-> "none"]

HelpIdle ==
    /\ hr_chain = <<[name |-> "", options |-> {}]>>
    /\ hr_operands = <<>>
    /\ hr_ui = 1
    /\ hr_options = <<"-h", "--help">>
    /\ hr_commands = <<"help">>
    /\ hr_ignorecmds = <<"">>
    /\ hr_displayed = FALSE
    /\ hr_printed = <<>>
    /\ hr_ret = [op |-> "none"]

HelpNext ==
    \/ run /\ UNCHANGED <<optVars, modeVars, lineVars, builderVars>>
    \/ adjust /\ UNCHANGED <<optVars, modeVars, lineVars, builderVars>>

(***************************************************************************)
(* Texts of the help screen are sequences of characters.                   *)
(***************************************************************************)
\* str * n
RECURSIVE Times(_, _)
Times(str, n) == IF n <= 0 THEN <<>> ELSE str \o Times(str, n - 1)

Spaces(n) == Times(<<" ">>, n)

\* str.ljust
ljust(str, width) == str \o Spaces(width - Len(str))

\* str.strip: the only whitespace of the model's texts is the space
RECURSIVE lstrip(_)
lstrip(str) == IF str /= <<>> /\ Head(str) = " " THEN lstrip(Tail(str)) ELSE str

RECURSIVE rstrip(_)
rstrip(str) ==
    IF str /= <<>> /\ str[Len(str)] = " " THEN rstrip(SubSeq(str, 1, Len(str) - 1))
    ELSE str

strip(str) == rstrip(lstrip(str))

\* str.join
RECURSIVE join(_, _)
join(sep, items) ==
    IF items = <<>> THEN <<>>
    ELSE IF Len(items) = 1 THEN items[1]
    ELSE items[1] \o sep \o join(sep, Tail(items))

\* a text that may be absent
PyStr(str) == [py |-> "str", s |-> str]

\* makelines as one call, for the callers that use its result: the while loop
RECURSIVE makelinesLoop(_, _, _, _, _)
makelinesLoop(words, maxlen, line, i, lines) ==
    IF i < Len(words)
    THEN IF fits(line, words[i + 1], maxlen)
         THEN makelinesLoop(words, maxlen, line \o words[i + 1] \o <<" ">>, i + 1, lines)
         ELSE makelinesLoop(words, maxlen, <<>>, i, Append(lines, line))
    ELSE IF line /= <<>> THEN Append(lines, line) ELSE lines

makelines(str, maxlen) == makelinesLoop(split(str), maxlen, <<>>, 0, <<>>)

(***************************************************************************)
(* The mode a Helper renders and the options the mode holds: mode.Mode and *)
(* the options it returns are not among the sources; modelled from the     *)
(* specification and from what helper.py reads of them. A mode is a record *)
(* of its document (_doc), its options by scope (options(group=...)) and   *)
(* its sub-modes by name (modes(), getmode()).                             *)
(***************************************************************************)
\* the most gen lines a builder may hold when a generator is called again
MaxHeldLines == 3
\* the option column is let grow to MaxOptDescStart
MaxOptDescStart == 24

HelpOptV == [short |-> <<"-", "v">>, long |-> <<>>, params |-> <<>>, help |-> <<"h">>]
HelpOptBB == [short |-> <<>>, long |-> <<"-", "-", "b", "b">>, params |-> << <<"s">> >>,
              help |-> <<>>]

DocUsages == {PyNone, PyList(<< <<"u">>, <<"w">> >>)}
DocExamples ==
    {PyNone,
     PyList(<<[line |-> PyStr(<<"x">>), desc |-> PyStr(<<"d">>)],
              [line |-> PyNone, desc |-> PyStr(<<"e">>)],
              [line |-> PyStr(<<"y">>), desc |-> PyNone]>>)}
DocHelps == {<<>>, <<"h", " ", "i">>}

\* a sub-mode: a help text, no usage, no examples, no options, no sub-modes
LeafMode ==
    [doc     |-> [usage |-> PyNone, examples |-> PyNone, help |-> <<"s">>],
     options |-> [global |-> <<>>, local |-> <<>>],
     modes   |-> <<>>]

SubModeNames == {<<"a">>, <<"b", "b">>}
\* sorted(): the order of the sub-mode names
SubModeOrder == << <<"a">>, <<"b", "b">> >>
SubModeSets == {{}, {<<"b", "b">>}, SubModeNames}

RootModes ==
    {[doc     |-> [usage |-> u, examples |-> e, help |-> h],
      options |-> [global |-> g, local |-> l],
      modes   |-> [n \in S |-> LeafMode]] :
        u \in DocUsages, e \in DocExamples, h \in DocHelps,
        g \in {<<>>, <<HelpOptV>>}, l \in {<<>>, <<HelpOptBB, HelpOptV>>},
        S \in SubModeSets}

sorted(names) == SelectSeq(SubModeOrder, LAMBDA n : n \in names)

(***************************************************************************)
(* helper.Helper                                                           *)
(***************************************************************************)
\* Helper._progname and Helper._indent['string']
HelperProgname == <<"p">>
IndentString == <<" ", " ", " ">>

\* the token-lines of Helper._lines: ('str', text) and ('option', text, option)
StrLine(text) == [tag |-> "str", text |-> text]
OptionLine(text, opt) == [tag |-> "option", text |-> text, opt |-> opt]

\* ' '.join(['<{0}>'.format(i) for i in option.params()])
RECURSIVE formatParams(_)
formatParams(params) ==
    IF params = <<>> THEN <<>>
    ELSE IF Len(params) = 1 THEN <<"<">> \o params[1] \o <<">">>
    ELSE <<"<">> \o params[1] \o <<">", " ">> \o formatParams(Tail(params))

\* renderOptionHelp
renderOptionHelp(option, help) ==
    LET m1 == IF option.short /= <<>> THEN option.short ELSE Spaces(4)
        m2 == IF option.short /= <<>> /\ option.long /= <<>> THEN m1 \o <<",", " ">> ELSE m1
        m3 == m2 \o option.long
        m4 == IF option.params /= <<>>
              THEN m3 \o (IF option.long /= <<>> THEN <<"=">> ELSE <<" ">>)
                      \o formatParams(option.params)
              ELSE m3
    IN  IF help /\ option.help /= <<>> THEN m4 \o <<" ", "-", " ">> \o option.help ELSE m4

\* _getoptionlines: the option lines of one scope
RECURSIVE scopeOptionLines(_, _)
scopeOptionLines(options, prefix) ==
    IF options = <<>> THEN <<>>
    ELSE <<OptionLine(prefix \o renderOptionHelp(Head(options), FALSE), Head(options))>>
         \o scopeOptionLines(Tail(options), prefix)

\* _getoptionlines: the header, the option lines and the blank line of one scope
scopeLines(aMode, scope, word, indent, level) ==
    IF aMode.options[scope] = <<>> THEN <<>>
    ELSE <<StrLine(Times(indent, level) \o word
                   \o <<" ", "o", "p", "t", "i", "o", "n", "s", ":">>)>>
         \o scopeOptionLines(aMode.options[scope], Times(indent, level + 1))
         \o <<StrLine(<<>>)>>

\* _getoptionlines
getoptionlines(aMode, indent, level) ==
    scopeLines(aMode, "global", <<"g", "l", "o", "b", "a", "l">>, indent, level)
    \o scopeLines(aMode, "local", <<"l", "o", "c", "a", "l">>, indent, level)

\* _cleanback: lines[-1] of an emptied list raises IndexError
RECURSIVE cleanback(_)
cleanback(lines) ==
    IF lines = <<>> THEN [raised |-> TRUE, lines |-> lines]
    ELSE IF lines[Len(lines)].tag /= "str" THEN [raised |-> FALSE, lines |-> lines]
    ELSE IF strip(lines[Len(lines)].text) = <<>>
         THEN cleanback(SubSeq(lines, 1, Len(lines) - 1))
    ELSE [raised |-> FALSE, lines |-> lines]

\* Helper._genexamples: the loop over the examples, from Python index i
RECURSIVE genexamplesLoop(_, _, _)
genexamplesLoop(examples, i, lines) ==
    IF ~(i < Len(examples)) THEN lines
    ELSE LET example == examples[i + 1]
             l1 == Append(lines, StrLine(IndentString \o HelperProgname \o <<" ">>
                                         \o example.line.s))
             l2 == Append(l1, StrLine(IndentString \o IndentString \o example.desc.s))
             l3 == IF i < Len(examples) - 1 THEN Append(l2, StrLine(<<>>)) ELSE l2
         IN  IF example.line = PyNone THEN genexamplesLoop(examples, i + 1, lines)
             ELSE IF example.desc /= PyNone /\ example.desc.s /= <<>>
                  THEN genexamplesLoop(examples, i + 1, l3)
             ELSE genexamplesLoop(examples, i + 1, l1)

\* Helper._genexamples: self._lines after it
genexamples(selfLines, aMode) ==
    LET examples == IF aMode.doc.examples /= PyNone THEN aMode.doc.examples.items ELSE <<>>
        lines    == genexamplesLoop(examples, 0,
                        IF examples /= <<>>
                        THEN <<StrLine(<<"E", "x", "a", "m", "p", "l", "e", "s", ":">>)>>
                        ELSE <<>>)
        extended == IF lines /= <<>> THEN selfLines \o lines ELSE selfLines
    IN  IF extended /= <<>> /\ lines /= <<>> THEN Append(extended, StrLine(<<>>))
        ELSE extended

\* Helper._genusage: `indent + line` for every line after the first
RECURSIVE usageTail(_, _)
usageTail(what, indent) ==
    IF what = <<>> THEN <<>>
    ELSE <<StrLine(indent \o Head(what))>> \o usageTail(Tail(what), indent)

\* Helper._genusage: self._lines after it
genusage(selfLines, aMode) ==
    LET head     == <<"u", "s", "a", "g", "e", ":", " ">> \o HelperProgname \o <<" ">>
        indent   == Spaces(Len(head))
        what     == IF aMode.doc.usage /= PyNone THEN aMode.doc.usage.items ELSE <<>>
        lines    == IF what /= <<>>
                    THEN <<StrLine(head \o what[1])>> \o usageTail(Tail(what), indent)
                    ELSE <<>>
        extended == selfLines \o lines
    IN  IF extended /= <<>> THEN Append(extended, StrLine(<<>>)) ELSE extended

\* Helper._gencommandhelp: the continuation lines
RECURSIVE continuationLines(_, _)
continuationLines(rest, prefix) ==
    IF rest = <<>> THEN <<>>
    ELSE <<StrLine(prefix \o Head(rest))>> \o continuationLines(Tail(rest), prefix)

\* Helper._gencommandhelp: the lines it returns, or the IndexError of _cleanback
gencommandhelp(maxlen, aMode, name, level, longest) ==
    LET longest2 == IF longest = 0 THEN Len(name) ELSE longest
        SPACING  == IF longest2 /= 0 THEN 2 ELSE 0
        text     == ljust(name, longest2 + SPACING) \o strip(aMode.doc.help)
        first    == makelines(text, maxlen)[1]
        rest     == makelines(SubSeq(text, Len(first) + 1, Len(text)),
                              maxlen - Len(name) - 3)
        indent   == Times(IndentString, level)
        padding  == Spaces(Len(name) + SPACING)
        cleaned  == cleanback(<<StrLine(indent \o first)>>
                              \o continuationLines(rest, indent \o padding))
    IN  IF cleaned.raised THEN cleaned
        ELSE IF text /= <<>>
             THEN [raised |-> FALSE, lines |-> Append(cleaned.lines, StrLine(<<>>))]
        ELSE cleaned

\* max(len(m) for m in modes), 0 without modes
RECURSIVE longestName(_, _)
longestName(names, longest) ==
    IF names = <<>> THEN longest
    ELSE longestName(Tail(names),
                     IF Len(Head(names)) > longest THEN Len(Head(names)) ELSE longest)

\* Helper._genmodelines and Helper._gencommandslines call each other; each gives
\* self._lines as it leaves it (selfLines), and _gencommandslines the list it returns
RECURSIVE genmodelines(_, _, _, _, _, _)
RECURSIVE gencommandslinesLoop(_, _, _, _, _, _, _, _)

\* Helper._gencommandslines: the loop over the sorted sub-mode names. A deep entry
\* is _genmodelines with its default deep=True, which writes to self._lines and
\* returns an empty list.
gencommandslinesLoop(maxlen, selfLines, aMode, names, level, deep, longest, lines) ==
    IF names = <<>> THEN [raised |-> FALSE, selfLines |-> selfLines, lines |-> lines]
    ELSE LET m       == Head(names)
             submode == aMode.modes[m]
             nested  == genmodelines(maxlen, selfLines, submode, level + 2, m, TRUE)
             summary == gencommandhelp(maxlen, submode, m, level + 2, longest)
         IN  IF deep
             THEN IF nested.raised
                  THEN [raised |-> TRUE, selfLines |-> nested.selfLines, lines |-> lines]
                  ELSE gencommandslinesLoop(maxlen, nested.selfLines, aMode, Tail(names),
                                            level, deep, longest,
                                            Append(lines, StrLine(<<>>)))
             ELSE IF summary.raised
                  THEN [raised |-> TRUE, selfLines |-> selfLines, lines |-> lines]
                  ELSE gencommandslinesLoop(maxlen, selfLines, aMode, Tail(names),
                                            level, deep, longest,
                                            lines \o summary.lines)

\* Helper._gencommandslines
gencommandslines(maxlen, selfLines, aMode, level, deep) ==
    LET names == sorted(DOMAIN aMode.modes)
    IN  gencommandslinesLoop(maxlen, selfLines, aMode, names, level, deep,
                             longestName(names, 0), <<>>)

\* Helper._genmodelines: self._lines after it, or as the IndexError left it
genmodelines(maxlen, selfLines, aMode, level, name, deep) ==
    LET command  == gencommandhelp(maxlen, aMode, name, level, 0)
        l1       == selfLines \o command.lines
        l2       == l1 \o getoptionlines(aMode, IndentString, level + 1)
        l3       == IF DOMAIN aMode.modes /= {}
                    THEN Append(l2, StrLine(Times(IndentString, level + 1)
                                   \o <<"c", "o", "m", "m", "a", "n", "d", "s", ":">>))
                    ELSE l2
        commands == gencommandslines(maxlen, l3, aMode, level, deep)
    IN  IF command.raised THEN [raised |-> TRUE, selfLines |-> selfLines]
        ELSE IF commands.raised THEN [raised |-> TRUE, selfLines |-> commands.selfLines]
        ELSE [raised |-> FALSE, selfLines |-> commands.selfLines \o commands.lines]

\* Helper.render, first pass: the loop that widens self._opt_desc_start
RECURSIVE widest(_, _)
widest(lines, start) ==
    IF lines = <<>> THEN start
    ELSE widest(Tail(lines),
                IF Head(lines).tag = "option" /\ Len(Head(lines).text) > start
                THEN Len(Head(lines).text) ELSE start)

\* Helper.render, second pass: the string of one token-line
renderLine(line, start) ==
    IF line.tag = "str" THEN line.text
    ELSE ljust(line.text, start)
         \o (IF line.opt.help /= <<>> THEN <<"-", " ">> \o line.opt.help ELSE <<>>)

RECURSIVE renderLines(_, _)
renderLines(lines, start) ==
    IF lines = <<>> THEN <<>>
    ELSE <<renderLine(Head(lines), start)>> \o renderLines(Tail(lines), start)

\* Helper.render: the trailing empty strings are popped
RECURSIVE popEmpty(_)
popEmpty(strings) ==
    IF strings /= <<>> /\ strings[Len(strings)] = <<>>
    THEN popEmpty(SubSeq(strings, 1, Len(strings) - 1))
    ELSE strings

\* Helper.render: the text it returns when the second pass pads to column start
renderText(lines, start) == join(<<"\n">>, popEmpty(renderLines(lines, start)))

\* Helper.render: a token-line of another type raises Exception
renderRaises(lines) == \E k \in 1..Len(lines) : lines[k].tag \notin {"str", "option"}

\* Helper.render: self._opt_desc_start is widened and then raised by 2, on every call
Helper_render ==
    LET start == widest(hp_lines, hp_opt_desc_start) + 2
    IN  /\ hp_opt_desc_start < MaxOptDescStart
        /\ hp_opt_desc_start' = start
        /\ hp_ret' = IF renderRaises(hp_lines)
                     THEN [op |-> "render", raised |-> "Exception"]
                     ELSE [op |-> "render", raised |-> "",
                           value |-> renderText(hp_lines, start)]
        /\ UNCHANGED <<hp_mode, hp_maxlen, hp_lines>>

\* Helper.setmaxlen
Helper_setmaxlen ==
    \E n \in {70} :
        /\ hp_maxlen' = n
        /\ hp_ret' = [op |-> "setmaxlen"]
        /\ UNCHANGED <<hp_mode, hp_lines, hp_opt_desc_start>>

\* Helper.usage
Helper_usage ==
    /\ Len(hp_lines) <= MaxHeldLines
    /\ hp_lines' = genusage(hp_lines, hp_mode)
    /\ hp_ret' = [op |-> "usage"]
    /\ UNCHANGED <<hp_mode, hp_maxlen, hp_opt_desc_start>>

\* Helper.examples
Helper_examples ==
    /\ Len(hp_lines) <= MaxHeldLines
    /\ hp_lines' = genexamples(hp_lines, hp_mode)
    /\ hp_ret' = [op |-> "examples"]
    /\ UNCHANGED <<hp_mode, hp_maxlen, hp_opt_desc_start>>

\* Helper.full
Helper_full ==
    \E deep \in BOOLEAN :
        LET made == genmodelines(hp_maxlen, genexamples(genusage(hp_lines, hp_mode), hp_mode),
                                 hp_mode, 0, <<>>, deep)
        IN  /\ Len(hp_lines) <= MaxHeldLines
            /\ hp_lines' = made.selfLines
            /\ hp_ret' = [op |-> "full", deep |-> deep,
                          raised |-> IF made.raised THEN "IndexError" ELSE ""]
            /\ UNCHANGED <<hp_mode, hp_maxlen, hp_opt_desc_start>>

\* Helper.__init__, given any mode
HelperInit ==
    /\ hp_mode \in RootModes
    /\ hp_maxlen = 140
    /\ hp_opt_desc_start = 0
    /\ hp_lines = <<>>
    /\ hp_ret = [op |-> "none"]

HelperIdle ==
    /\ hp_mode = LeafMode
    /\ hp_maxlen = 140
    /\ hp_opt_desc_start = 0
    /\ hp_lines = <<>>
    /\ hp_ret = [op |-> "none"]

HelperNext ==
    \/ Helper_usage /\ UNCHANGED <<optVars, modeVars, lineVars, helpVars>>
    \/ Helper_examples /\ UNCHANGED <<optVars, modeVars, lineVars, helpVars>>
    \/ Helper_full /\ UNCHANGED <<optVars, modeVars, lineVars, helpVars>>
    \/ Helper_setmaxlen /\ UNCHANGED <<optVars, modeVars, lineVars, helpVars>>
    \/ Helper_render /\ UNCHANGED <<optVars, modeVars, lineVars, helpVars>>

(***************************************************************************)
(* Initial states and specifications                                       *)
(***************************************************************************)
\* Parser.__init__, for every command line, default mode name and caller-built
\* sub-parser
ModesInit ==
    /\ cmdline \in TokenLists
    /\ argv = <<>>
    /\ modes = [k \in {""} |-> 0]
    /\ mode = NoAttr
    /\ default \in ModeNames
    /\ parser = PyNone
    /\ subOptions \in {[id \in ParserIds |-> IF id = 0 THEN <<>> ELSE l] : l \in OptLists}
    /\ subArgv = [id \in ParserIds |-> PyNone]
    /\ ret = [op |-> "none"]

ModesIdle ==
    /\ cmdline = <<>>
    /\ argv = <<>>
    /\ modes = [k \in {""} |-> 0]
    /\ mode = NoAttr
    /\ default = ""
    /\ parser = PyNone
    /\ subOptions = [id \in ParserIds |-> <<>>]
    /\ subArgv = [id \in ParserIds |-> PyNone]
    /\ ret = [op |-> "none"]

ModesNext ==
    \/ feed /\ UNCHANGED <<optVars, lineVars, helpVars, builderVars>>
    \/ addMode /\ UNCHANGED <<optVars, lineVars, helpVars, builderVars>>
    \/ addOption /\ UNCHANGED <<optVars, lineVars, helpVars, builderVars>>
    \/ define /\ UNCHANGED <<optVars, lineVars, helpVars, builderVars>>
    \/ contains /\ UNCHANGED <<optVars, lineVars, helpVars, builderVars>>

InitModes == ModesInit /\ OptionIdle /\ LinesIdle /\ HelpIdle /\ HelperIdle

SpecModes == InitModes /\ [][ModesNext]_vars

OptionNext ==
    \/ OptionNew /\ UNCHANGED <<modeVars, lineVars, helpVars, builderVars>>
    \/ OptionMatch /\ UNCHANGED <<modeVars, lineVars, helpVars, builderVars>>

InitOption == OptionIdle /\ ModesIdle /\ LinesIdle /\ HelpIdle /\ HelperIdle

SpecOption == InitOption /\ [][OptionNext]_vars

InitLines == LinesInit /\ OptionIdle /\ ModesIdle /\ HelpIdle /\ HelperIdle

SpecLines == InitLines /\ [][LinesNext]_vars

\* makelines is one sequential call: once entered, its loop keeps taking turns
SpecLinesFair == InitLines /\ [][LinesNext]_vars /\ WF_vars(LinesNext)

InitHelp == HelpInit /\ OptionIdle /\ ModesIdle /\ LinesIdle /\ HelperIdle

SpecHelp == InitHelp /\ [][HelpNext]_vars

InitHelper == HelperInit /\ OptionIdle /\ ModesIdle /\ LinesIdle /\ HelpIdle

SpecHelper == InitHelper /\ [][HelperNext]_vars

(***************************************************************************)
(* Properties of modes.Parser, checked under SpecModes                     *)
(***************************************************************************)
\* how many of the following tokens an option token takes as its arguments
ArgCount(s) == IF type(s) = PyNone THEN 0 ELSE PyLen(type(s))

\* position (from 1) of the first literal `--` of argv, Len(argv) + 1 without one
BreakerPos ==
    IF \E p \in 1..Len(argv) : argv[p] = "--"
    THEN CHOOSE p \in 1..Len(argv) :
             argv[p] = "--" /\ \A q \in 1..(p - 1) : argv[q] /= "--"
    ELSE Len(argv) + 1

\* Python index of the first token before the breaker that is neither option-like
\* nor among the arguments of an option before it, -1 without one
RECURSIVE FirstFreeFrom(_)
FirstFreeFrom(p) ==
    IF p >= BreakerPos THEN -1
    ELSE IF lookslikeopt(argv[p]) THEN FirstFreeFrom(p + 1 + ArgCount(argv[p]))
    ELSE p - 1

\* C1: the scan run by define() returns the index of the first token before the
\* first `--` that is not option-like and not consumed as an argument of a
\* preceding option, and -1 when there is none.
C1_ModeIndexIsFirstFreeToken ==
    [][(ret'.op = "define" /\ ret' /= ret) => ret'.index = FirstFreeFrom(1)]_vars

\* C2: after addOption the new option is the last option of every registered
\* sub-parser (local = false), or of the default mode's sub-parser (local = true).
C2_AddOptionAppends ==
    ret.op = "addOption" =>
        \A name \in (IF ret.local THEN {""} ELSE DOMAIN modes) :
            LET options == subOptions[modes[name]]
            IN  /\ options /= <<>>
                /\ options[Len(options)].short = "-" \o ret.short
                /\ options[Len(options)].long = "--" \o ret.long

\* C3: after a successful define(), a found index names the mode token and the
\* resolved sub-parser holds argv without exactly that token, the other tokens in
\* their order; with no index found the mode is the default and the sub-parser
\* holds argv unchanged.
C3_DefineRemovesExactlyTheModeToken ==
    (ret.op = "define" /\ ret.raised = "") =>
        LET input == subArgv[parser.id].items
        IN  /\ parser = PyObj(modes[mode])
            /\ ret.value = mode
            /\ IF ret.index > -1
               THEN /\ mode = argv[ret.index + 1]
                    /\ Len(input) = Len(argv) - 1
                    /\ \A j \in 1..Len(input) :
                           input[j] = argv[IF j <= ret.index THEN j ELSE j + 1]
               ELSE /\ mode = default
                    /\ input = argv

\* a define() that took a mode token from the middle of the token list
C3_Witness ==
    /\ ret.op = "define"
    /\ ret.raised = ""
    /\ ret.index > 0
    /\ ret.index + 1 < Len(argv)

\* C4: define() raises the unrecognised-mode error exactly when the resolved name
\* (the scanned token, else the default) is not registered, and then leaves the
\* pending tokens, the resolved sub-parser, the mode name and every sub-parser's
\* fed tokens as they were.
C4_UnrecognisedModeConsumesNothing ==
    [][(ret'.op = "define" /\ ret' /= ret) =>
          LET m == IF ret'.index > -1 THEN argv[ret'.index + 1] ELSE default
          IN  /\ (m \notin DOMAIN modes) <=> (ret'.raised = "UnrecognizedModeError")
              /\ (m \notin DOMAIN modes) =>
                     /\ argv' = argv
                     /\ parser' = parser
                     /\ mode' = mode
                     /\ subArgv' = subArgv
                     /\ modes' = modes]_vars

\* a define() that raised on a scanned, unregistered mode token after a feed()
C4_Witness ==
    /\ ret.op = "define"
    /\ ret.raised = "UnrecognizedModeError"
    /\ ret.index > -1
    /\ mode = ""

\* C7: `name in parser` answers a boolean in both states: whether the resolved
\* sub-parser recognises the name, or, with none resolved, whether any registered
\* sub-parser does.
C7_ContainsAnswersInBothStates ==
    ret.op = "contains" =>
        /\ ret.raised = ""
        /\ ret.value =
              IF parser /= PyNone
              THEN BaseContains(subOptions[parser.id], ret.option)
              ELSE \E name \in DOMAIN modes :
                       BaseContains(subOptions[modes[name]], ret.option)

\* C12: define() is idempotent: a define() that follows a successful define() with
\* no feed(), addMode() or addOption() in between succeeds too, resolves the same
\* mode name and the same sub-parser, and feeds it the same token list.
C12_DefineIsIdempotent ==
    [][(ret.op = "define" /\ ret.raised = "" /\ ret'.op = "define") =>
          /\ ret'.raised = ""
          /\ mode' = mode
          /\ parser' = parser
          /\ subArgv'[parser'.id] = subArgv[parser.id]]_vars

(***************************************************************************)
(* Properties of option.Option, checked under SpecOption                   *)
(***************************************************************************)
\* C9: match(token) is true iff the token is the given short name behind one
\* hyphen or the given long name behind two; a token without a hyphen prefix,
\* the empty token included, never matches.
C9_MatchOnlyPrefixedForms ==
    optRet.op = "match" =>
        (optRet.value <=>
            \/ (optArgs.short /= "" /\ optRet.token = "-" \o optArgs.short)
            \/ (optArgs.long /= "" /\ optRet.token = "--" \o optArgs.long))

\* C10: construction raises exactly when short and long are both empty or long is
\* non-empty and shorter than 2 characters; otherwise it stores short behind one
\* hyphen and long behind two, each when given.
C10_ConstructionFailsExactlyOnBadNames ==
    optRet.op = "Option" =>
        /\ (optRet.raised = "TypeError") <=>
               \/ (optRet.short = "" /\ optRet.long = "")
               \/ (optRet.long /= "" /\ Len(optRet.long) < 2)
        /\ optRet.raised = "" =>
               /\ optRet.short /= "" => optObj.short = "-" \o optRet.short
               /\ optRet.long /= "" => optObj.long = "--" \o optRet.long
               /\ optRet.short = "" => optObj.short = ""
               /\ optRet.long = "" => optObj.long = ""

\* an Option built from a short name and a two-character long name
C10_Witness ==
    /\ optRet.op = "Option"
    /\ optRet.raised = ""
    /\ optRet.short /= ""
    /\ Len(optRet.long) = 2
    /\ optObj.long = "--xy"

(***************************************************************************)
(* Properties of helper.makelines, checked under SpecLines                 *)
(***************************************************************************)
\* C8 as stated: no line makelines returns is longer than the max width minus 1.
C8_LinesWithinMaxlenMinusOne ==
    ml_pc = "done" =>
        \A k \in 1..Len(ml_lines) : Len(ml_lines[k]) <= ml_maxlen - 1

\* C8, amended: every non-empty line is its packed words, which take at most the
\* max width minus 1, and one trailing space: it is no longer than the max width.
C8_LinesWithinMaxlen ==
    \A k \in 1..Len(ml_lines) :
        ml_lines[k] /= <<>> =>
            /\ Len(ml_lines[k]) <= ml_maxlen
            /\ ml_lines[k][Len(ml_lines[k])] = " "

\* makelines returned several lines, one of them as long as the max width
C8_Witness ==
    /\ ml_pc = "done"
    /\ Len(ml_lines) >= 2
    /\ \E k \in 1..Len(ml_lines) : Len(ml_lines[k]) = ml_maxlen

\* C11: makelines terminates for every string and every max width, a word longer
\* than the max width minus 1 included: every call returns, and every turn of the
\* word-packing loop makes progress, moving on to the next word or changing the
\* line it packs.
C11_MakelinesReturns ==
    /\ <>(ml_pc = "done")
    /\ [][(ml_pc = "while" /\ ml_pc' = "while") =>
              (ml_i' > ml_i \/ ml_line' /= ml_line)]_vars

(***************************************************************************)
(* Properties of helper.HelpRunner, checked under SpecHelp                 *)
(***************************************************************************)
Kinds(printed) == [k \in 1..Len(printed) |-> printed[k].kind]
Elements(list) == {list[k] : k \in 1..Len(list)}

\* C5 as stated: run() on input that contains --usage prints only the usage block
\* and displayed() is true afterwards, whatever other flags are present.
C5_UsageOnly ==
    (hr_ret.op = "run" /\ uiContains(hr_ui, "--usage")) =>
        /\ hr_displayed
        /\ Kinds(hr_printed) = <<"usage">>

\* C5, amended: run() on input that contains --usage prints the usage block, then
\* the examples block exactly when --examples is present too, and nothing else;
\* displayed() is true afterwards.
C5_UsageThenExamplesOnly ==
    (hr_ret.op = "run" /\ uiContains(hr_ui, "--usage")) =>
        /\ hr_displayed
        /\ Kinds(hr_printed) =
              IF uiContains(hr_ui, "--examples") THEN <<"usage", "examples">>
              ELSE <<"usage">>

\* a first run() on --usage together with -h, which printed the usage block alone
C5_Witness ==
    /\ hr_ret.op = "run"
    /\ ~hr_ret.before
    /\ uiContains(hr_ui, "--usage")
    /\ uiContains(hr_ui, "-h")
    /\ Kinds(hr_printed) = <<"usage">>

\* C6: once adjust() has replaced the triggering commands, a first run() on a
\* command line with one command and no option shows help exactly when that
\* command is one of the new triggering commands.
C6_AdjustedCommandsTriggerHelp ==
    (/\ hr_ret.op = "run"
     /\ ~hr_ret.before
     /\ hr_commands /= <<"help">>
     /\ Len(hr_chain) = 2
     /\ \A k \in 1..Len(hr_chain) : hr_chain[k].options = {}) =>
        (hr_displayed <=> hr_chain[2].name \in Elements(hr_commands))

(***************************************************************************)
(* Properties of helper.Helper, checked under SpecHelper                   *)
(***************************************************************************)
\* C13: render() is idempotent: a render() that follows a render() with no lines
\* added in between returns the same text, and the text of every render() has its
\* option lines padded to the widest option-summary prefix plus exactly 2 columns.
C13_RenderIsIdempotent ==
    [][hp_ret'.op = "render" =>
          /\ hp_ret'.raised = ""
          /\ hp_ret'.value = renderText(hp_lines', widest(hp_lines', 0) + 2)
          /\ hp_ret.op = "render" => hp_ret'.value = hp_ret.value]_vars

=============================================================================
